---- MODULE Spec2Model ----
(***************************************************************************)
(* Model of the persistent parent/child retriever of cognitive-query-pro:  *)
(* core/vector_store_handler.py (VectorStoreHandler) together with the     *)
(* behaviour of the ParentDocumentRetriever, FAISS store and text splitter *)
(* it drives.  Store objects live in two small heaps so that the handler's *)
(* fields and the retriever's fields are references, as in the program.    *)
(* The handler reads VECTOR_STORE_PATH, DOC_STORE_PATH, CHILD_CHUNK_SIZE   *)
(* and CHILD_CHUNK_OVERLAP from config/settings.py, which does not define  *)
(* them in this revision; they are taken as configured values.             *)
(***************************************************************************)
EXTENDS Integers, Sequences, FiniteSets, TLC

\* ---------------------------------------------------------------- bounds
MaxUuid == 2        \* documents ingested over a whole behaviour
MaxBatch == 2       \* documents handed to one build_index call
MaxVec == 1         \* embedding vectors are integers 0..MaxVec
MaxK == 3           \* largest top_k asked of a similarity search
MaxText == 4        \* longest text split on its own
MaxChunk == 3       \* largest chunk_size a text is split with
MaxFiles == 3       \* files uploaded to one process_documents call
MaxUpload == 2      \* files handed to one Process & Index click
MaxRuns == 1        \* analysis actions carried out in one session
MaxCalls == 52      \* track_performance calls followed on their own
MaxWords == 2       \* words of a routed query
MaxSpread == 8      \* token counts tried on either side of a threshold
MaxAgentRuns == 3   \* agent executions on one retriever

\* ------------------------------------------------------- configuration
CHILD_CHUNK_SIZE == 2
CHILD_CHUNK_OVERLAP == 1
DEFAULT_CHUNK_OVERLAP == 0

None == 0   \* the null reference
\* Documents as the ingestion collaborator supplies them: a.txt splits into
\* two fragments, b.txt into one.
Document == {[page_content |-> <<1, 2, 3>>, source |-> "a.txt"],
             [page_content |-> <<3>>, source |-> "b.txt"]}

Contents == {d.page_content : d \in Document}

Min(a, b) == IF a < b THEN a ELSE b

RECURSIVE SeqsUpTo(_, _)
SeqsUpTo(S, n) ==
    IF n = 0 THEN {<<>>}
    ELSE LET shorter == SeqsUpTo(S, n - 1)
         IN shorter \cup {Append(s, x) : s \in {t \in shorter : Len(t) = n - 1}, x \in S}

DocBatches == SeqsUpTo(Document, MaxBatch)

\* --------------------------------------------------------- text splitter
\* RecursiveCharacterTextSplitter with its defaults (keep_separator,
\* strip_whitespace, len as length function).  A text is a sequence of
\* characters; of the default separators "\n\n", "\n", " ", "" the model
\* keeps one real separator, Space, and the final "".
Space == 0

\* _split_text_with_regex with keep_separator: the text is cut before every
\* separator, which stays at the head of the piece it starts; empty pieces
\* are dropped.
RECURSIVE split_text_with_regex(_, _, _)
split_text_with_regex(text, i, piece) ==
    LET done == IF piece = <<>> THEN <<>> ELSE <<piece>>
    IN IF i > Len(text) THEN done
       ELSE IF text[i] = Space
            THEN done \o split_text_with_regex(text, i + 1, <<Space>>)
            ELSE split_text_with_regex(text, i + 1, Append(piece, text[i]))

\* list(text): the splits for the separator "".
Chars(text) == [i \in 1..Len(text) |-> <<text[i]>>]

RECURSIVE Flatten(_)
Flatten(pieces) == IF pieces = <<>> THEN <<>> ELSE Head(pieces) \o Flatten(Tail(pieces))

RECURSIVE strip(_)
strip(text) ==
    IF text = <<>> THEN <<>>
    ELSE IF Head(text) = Space THEN strip(Tail(text))
    ELSE IF text[Len(text)] = Space THEN strip(SubSeq(text, 1, Len(text) - 1))
    ELSE text

\* _join_docs: the pieces joined and stripped; nothing when that is empty.
join_docs(current_doc) ==
    LET text == strip(Flatten(current_doc))
    IN IF text = <<>> THEN <<>> ELSE <<text>>

\* Faulty shrink: nothing of the chunk just emitted is kept as overlap.
ShrinkAll(current_doc, total, len, size, overlap) == <<>>

\* The while loop of _merge_splits: pieces are dropped from the front of the
\* current chunk until what is left fits the overlap and the next piece.
RECURSIVE Shrink(_, _, _, _, _)
Shrink(current_doc, total, len, size, overlap) ==
    IF total > overlap \/ (total + len > size /\ total > 0)
    THEN Shrink(Tail(current_doc), total - Len(Head(current_doc)), len, size, overlap)
    ELSE current_doc

\* _merge_splits with the empty join separator: pieces are gathered into
\* the current chunk; when the next piece would overflow chunk_size the
\* chunk is emitted and shrunk to its overlap.
RECURSIVE merge_splits(_, _, _, _, _)
merge_splits(splits, size, overlap, current_doc, docs) ==
    IF splits = <<>> THEN docs \o join_docs(current_doc)
    ELSE LET d == Head(splits)
             total == Len(Flatten(current_doc))
         IN IF total + Len(d) > size /\ current_doc # <<>>
            THEN merge_splits(Tail(splits), size, overlap,
                              Append(Shrink(current_doc, total, Len(d), size, overlap), d),
                              docs \o join_docs(current_doc))
            ELSE merge_splits(Tail(splits), size, overlap, Append(current_doc, d), docs)

\* _split_text(text, [""]): single characters, merged when they count as
\* good splits (shorter than chunk_size), else chunks of their own.
SplitChars(text, size, overlap) ==
    IF 1 < size THEN merge_splits(Chars(text), size, overlap, <<>>, <<>>)
    ELSE Chars(text)

\* The loop of _split_text over the pieces cut at Space: short pieces are
\* gathered and merged, a piece of chunk_size or more is split further.
RECURSIVE SplitPieces(_, _, _, _)
SplitPieces(splits, size, overlap, good_splits) ==
    LET merged == IF good_splits = <<>> THEN <<>>
                  ELSE merge_splits(good_splits, size, overlap, <<>>, <<>>)
    IN IF splits = <<>> THEN merged
       ELSE IF Len(Head(splits)) < size
            THEN SplitPieces(Tail(splits), size, overlap, Append(good_splits, Head(splits)))
            ELSE merged \o SplitChars(Head(splits), size, overlap)
                        \o SplitPieces(Tail(splits), size, overlap, <<>>)

\* split_text: the first separator that occurs in the text is used.
split_text(splitter, text) ==
    IF \E i \in 1..Len(text) : text[i] = Space
    THEN SplitPieces(split_text_with_regex(text, 1, <<>>), splitter.chunk_size,
                     splitter.chunk_overlap, <<>>)
    ELSE SplitChars(text, splitter.chunk_size, splitter.chunk_overlap)

Splitters == {[chunk_size |-> CHILD_CHUNK_SIZE, chunk_overlap |-> CHILD_CHUNK_OVERLAP],
              [chunk_size |-> CHILD_CHUNK_SIZE, chunk_overlap |-> DEFAULT_CHUNK_OVERLAP]}

Range(s) == {s[i] : i \in 1..Len(s)}

\* Every text a fragment can carry.
FragTexts == UNION {Range(split_text(sp, c)) : sp \in Splitters, c \in Contents}

\* ------------------------------------------------------------ FAISS store
\* A vector store object: the flat L2 index (one vector per fragment, in
\* insertion order) and, aligned with it, the fragment each position maps to
\* through index_to_docstore_id and the store's own fragment docstore.
EmptyVectorStore == [index |-> <<>>, chunks |-> <<>>]

L2(v, q) == (v - q) * (v - q)

Closer(index, q, a, b) ==
    \/ L2(index[a], q) < L2(index[b], q)
    \/ L2(index[a], q) = L2(index[b], q) /\ a < b

\* Faulty search: returns one position more than asked.
RECURSIVE NearestOneMore(_, _, _, _)
NearestOneMore(index, q, k, taken) ==
    LET rest == (1..Len(index)) \ Range(taken)
    IN IF k + 1 = 0 \/ rest = {} THEN taken
       ELSE LET best == CHOOSE a \in rest : \A b \in rest \ {a} : Closer(index, q, a, b)
            IN NearestOneMore(index, q, k - 1, Append(taken, best))

\* IndexFlatL2.search: the k nearest positions by ascending distance, equal
\* distances in insertion order; fewer than k when the index is smaller.
RECURSIVE Nearest(_, _, _, _)
Nearest(index, q, k, taken) ==
    LET rest == (1..Len(index)) \ Range(taken)
    IN IF k = 0 \/ rest = {} THEN taken
       ELSE LET best == CHOOSE a \in rest : \A b \in rest \ {a} : Closer(index, q, a, b)
            IN Nearest(index, q, k - 1, Append(taken, best))

\* Faulty search: the labels the index pads its answer with when it holds
\* fewer than k vectors are not skipped and come back as empty fragments.
similarity_search_padded(vs, q, k) ==
    LET pos == Nearest(vs.index, q, k, <<>>)
    IN [i \in 1..k |-> IF i <= Len(pos) THEN vs.chunks[pos[i]]
                       ELSE [page_content |-> <<>>, doc_id |-> None]]

\* FAISS.similarity_search: the fragments at the nearest positions.
similarity_search(vs, q, k) ==
    LET pos == Nearest(vs.index, q, k, <<>>)
    IN [i \in 1..Len(pos) |-> vs.chunks[pos[i]]]

\* Faulty collection: every fragment's parent id is kept, repeats included.
RECURSIVE UniqueIdsKeepAll(_, _, _)
UniqueIdsKeepAll(sub_docs, i, ids) ==
    IF i > Len(sub_docs) THEN ids
    ELSE UniqueIdsKeepAll(sub_docs, i + 1, Append(ids, sub_docs[i].doc_id))

\* Faulty collection: distinct parent ids, the newest put in front.
RECURSIVE UniqueIdsNewestFirst(_, _, _)
UniqueIdsNewestFirst(sub_docs, i, ids) ==
    IF i > Len(sub_docs) THEN ids
    ELSE IF sub_docs[i].doc_id \in Range(ids)
         THEN UniqueIdsNewestFirst(sub_docs, i + 1, ids)
         ELSE UniqueIdsNewestFirst(sub_docs, i + 1, <<sub_docs[i].doc_id>> \o ids)

\* MultiVectorRetriever._get_relevant_documents, first half: the parent ids
\* of the fragments, each kept at its first occurrence.
RECURSIVE UniqueIds(_, _, _)
UniqueIds(sub_docs, i, ids) ==
    IF i > Len(sub_docs) THEN ids
    ELSE IF sub_docs[i].doc_id \in Range(ids)
         THEN UniqueIds(sub_docs, i + 1, ids)
         ELSE UniqueIds(sub_docs, i + 1, Append(ids, sub_docs[i].doc_id))

\* Faulty resolution: an id that does not resolve stays in the result as None.
RECURSIVE ResolvedKeepMissing(_, _, _)
ResolvedKeepMissing(ds, ids, i) ==
    IF i > Len(ids) THEN <<>>
    ELSE IF ids[i] \in DOMAIN ds
         THEN <<ids[i]>> \o ResolvedKeepMissing(ds, ids, i + 1)
         ELSE <<None>> \o ResolvedKeepMissing(ds, ids, i + 1)

\* InMemoryStore.mget followed by the `d is not None` filter: the ids that
\* resolve in the parent document store, in the order asked.
RECURSIVE Resolved(_, _, _)
Resolved(ds, ids, i) ==
    IF i > Len(ids) THEN <<>>
    ELSE IF ids[i] \in DOMAIN ds
         THEN <<ids[i]>> \o Resolved(ds, ids, i + 1)
         ELSE Resolved(ds, ids, i + 1)

\* retriever.get_relevant_documents(query): the ids, in order, of the parent
\* Documents returned for a query whose embedding is q with search depth k.
get_relevant_ids(vs, ds, q, k) ==
    Resolved(ds, UniqueIds(similarity_search(vs, q, k), 1, <<>>), 1)

get_relevant_documents(vs, ds, q, k) ==
    LET ids == get_relevant_ids(vs, ds, q, k)
    IN [i \in 1..Len(ids) |-> ds[ids[i]]]

\* -------------------------------------------------------- add_documents
\* ParentDocumentRetriever.add_documents(docs, ids=None): document i of the
\* call gets the fresh id base + i, its content is split by the child
\* splitter and every fragment carries that id.
RECURSIVE SubDocs(_, _, _, _)
SubDocs(splitter, docs, base, i) ==
    IF i > Len(docs) THEN <<>>
    ELSE LET texts == split_text(splitter, docs[i].page_content)
         IN [j \in 1..Len(texts) |-> [page_content |-> texts[j], doc_id |-> base + i]]
            \o SubDocs(splitter, docs, base, i + 1)

\* Faulty add: the index is rebuilt from the new fragments alone.
vectorstore_add_rebuild(vs, sub_docs, embed) ==
    [index |-> [j \in 1..Len(sub_docs) |-> embed[sub_docs[j].page_content]],
     chunks |-> sub_docs]

\* FAISS.add_documents: embed every fragment, then append vectors and
\* fragments.
vectorstore_add(vs, sub_docs, embed) ==
    [index |-> vs.index \o [j \in 1..Len(sub_docs) |-> embed[sub_docs[j].page_content]],
     chunks |-> vs.chunks \o sub_docs]

\* InMemoryStore.mset of the (id, document) pairs of the call.
docstore_mset(ds, docs, base) ==
    [id \in DOMAIN ds \cup {base + i : i \in 1..Len(docs)} |->
        IF id \in {base + i : i \in 1..Len(docs)} THEN docs[id - base] ELSE ds[id]]

EmptyDocStore == <<>>

\* ---------------------------------------------------------- persistence
\* A persisted artifact is absent, present but unreadable, or readable.
Absent == [state |-> "absent"]
Corrupt == [state |-> "corrupt"]

\* FAISS.save_local: index.faiss holds the vectors, index.pkl the fragment
\* docstore with index_to_docstore_id.
save_local(vs) == [state |-> "ok", faiss |-> vs.index, pkl |-> vs.chunks]

\* FAISS.load_local of a readable artifact.
load_local(art) == [index |-> art.faiss, chunks |-> art.pkl]

\* pickle.dump / pickle.load of the parent document store.
pickle_dump(ds) == [state |-> "ok", store |-> ds]

\* Faulty load: the parent document store starts empty instead of being read.
pickle_load_forgotten(art) == EmptyDocStore

pickle_load(art) == art.store

ConfiguredSplitter == [chunk_size |-> CHILD_CHUNK_SIZE, chunk_overlap |-> CHILD_CHUNK_OVERLAP]

\* RecursiveCharacterTextSplitter(chunk_size=...) with the overlap defaulted.
DefaultSplitter == [chunk_size |-> CHILD_CHUNK_SIZE, chunk_overlap |-> DEFAULT_CHUNK_OVERLAP]

\* Faulty load: a failure while loading is swallowed without a message.
load_retriever_from_disk_silent(dvs, dds) ==
    LET found == dvs.state = "ok" /\ dds.state = "ok"
    IN [outcome |-> IF found THEN "loaded" ELSE "not_found",
        read |-> IF dvs.state = "absent" \/ dds.state = "absent" THEN {}
                 ELSE IF dvs.state = "ok" THEN {"vs", "ds"} ELSE {"vs"},
        has_vs |-> found,
        has_ds |-> found,
        vs |-> IF found THEN load_local(dvs) ELSE EmptyVectorStore,
        ds |-> IF found THEN pickle_load(dds) ELSE EmptyDocStore,
        ui |-> IF found THEN <<"success">> ELSE <<>>]

\* Faulty load: the existence test passes when either artifact exists.
load_retriever_from_disk_either(dvs, dds) ==
    LET found == dvs.state # "absent" \/ dds.state # "absent"
        vs_ok == found /\ dvs.state = "ok"
        ds_ok == vs_ok /\ dds.state = "ok"
    IN [outcome |-> IF ~found THEN "not_found" ELSE IF ds_ok THEN "loaded" ELSE "load_error",
        read |-> IF ~found THEN {} ELSE IF vs_ok THEN {"vs", "ds"} ELSE {"vs"},
        has_vs |-> vs_ok,
        has_ds |-> ds_ok,
        vs |-> IF vs_ok THEN load_local(dvs) ELSE EmptyVectorStore,
        ds |-> IF ds_ok THEN pickle_load(dds) ELSE EmptyDocStore,
        ui |-> IF ~found THEN <<>> ELSE IF ds_ok THEN <<"success">> ELSE <<"error">>]

\* _load_retriever_from_disk as a function of the two artifacts: which
\* artifacts it reads, what it loads, and what it tells the user.
load_retriever_from_disk(dvs, dds) ==
    LET found == dvs.state # "absent" /\ dds.state # "absent"
        vs_ok == found /\ dvs.state = "ok"
        ds_ok == vs_ok /\ dds.state = "ok"
    IN [outcome |-> IF ~found THEN "not_found" ELSE IF ds_ok THEN "loaded" ELSE "load_error",
        read |-> IF ~found THEN {} ELSE IF vs_ok THEN {"vs", "ds"} ELSE {"vs"},
        has_vs |-> vs_ok,
        has_ds |-> ds_ok,
        vs |-> IF vs_ok THEN load_local(dvs) ELSE EmptyVectorStore,
        ds |-> IF ds_ok THEN pickle_load(dds) ELSE EmptyDocStore,
        ui |-> IF ~found THEN <<>> ELSE IF ds_ok THEN <<"success">> ELSE <<"error">>]

\* Where a save can fail: creating the directories, writing the FAISS
\* artifact (before anything is written, or partway), opening the document
\* store file, or dumping into it.
SaveFaults == {"none", "makedirs", "save_local_early", "save_local_partial",
               "open_doc", "dump_doc"}

\* _save_retriever_to_disk past its `if not self.retriever` guard: the
\* artifacts left on disk and the messages shown, for each fault.
save_retriever_to_disk(vs, ds, dvs, dds, fault) ==
    [disk_vs |-> CASE fault = "makedirs" -> dvs
                   [] fault = "save_local_early" ->
                        IF dvs.state = "absent" THEN Corrupt ELSE dvs
                   [] fault = "save_local_partial" -> Corrupt
                   [] OTHER -> save_local(vs),
     disk_ds |-> CASE fault = "none" -> pickle_dump(ds)
                   [] fault = "dump_doc" -> Corrupt
                   [] OTHER -> dds,
     ui |-> IF fault = "none" THEN <<>> ELSE <<"error">>]

\* ------------------------------------------------------------------ state
VARIABLES
    embedding_function, \* text -> vector, loaded once and shared
    constructed,        \* a VectorStoreHandler exists in the session
    vectorstore,        \* self.vectorstore: reference into vs_heap, or None
    docstore,           \* self.docstore: reference into ds_heap, or None
    retriever,          \* self.retriever: the retriever object, or NoRetriever
    vs_heap,            \* the FAISS store objects
    ds_heap,            \* the parent document store objects
    disk_vs,            \* artifact at VECTOR_STORE_PATH
    disk_ds,            \* artifact at DOC_STORE_PATH
    uuid_ctr,           \* ids handed out by uuid4 so far
    ui,                 \* st.* messages of the last operation, in order
    last,               \* the last operation and what it returned
    made_ready,         \* a load or an add_documents of this handler succeeded
    sessions,           \* the handlers of concurrent user sessions
    split_call,         \* a document split on its own: input and fragments
    process_call,       \* a process_documents call: uploads and its result
    route_call,         \* a route_query call: query, LLM outcome, decision
    strategy_call,      \* a select_summarization_strategy call and its result
    full_docs,          \* st.session_state.full_docs: source -> Document, in insertion order
    vector_store_handler, \* st.session_state.vector_store_handler (main.py)
    processed_files,    \* st.session_state.processed_files
    usage_stats,        \* st.session_state.usage_stats
    performance_log,    \* st.session_state.performance_log
    clock,              \* the readings datetime.now() has given so far
    app_last,           \* the last page action of the session and its outcome
    search_kwargs,      \* search_kwargs of the retriever get_retriever hands out
    agent_runs          \* the agents run on that retriever and the k each searched with

\* The state of the VectorStoreHandler and of its persisted artifacts.
handlerVars == <<embedding_function, constructed, vectorstore, docstore, retriever,
                 vs_heap, ds_heap, disk_vs, disk_ds, uuid_ctr, ui, last, made_ready,
                 sessions, split_call>>

\* The state of the application around the handler: the document
\* processor, the agents and the session state of the pages.
sessionVars == <<full_docs, vector_store_handler, processed_files, usage_stats,
                 performance_log, clock, app_last>>

agentVars == <<search_kwargs, agent_runs>>

appVars == <<process_call, route_call, strategy_call, sessionVars, agentVars>>

vars == <<handlerVars, appVars>>

Refs == 1..2

\* self.retriever = None
NoRetriever == [vectorstore |-> None, docstore |-> None,
                child_splitter |-> [chunk_size |-> 0, chunk_overlap |-> 0]]

\* ParentDocumentRetriever(vectorstore=..., docstore=..., child_splitter=...)
ParentDocumentRetriever(vs_ref, ds_ref, splitter) ==
    [vectorstore |-> vs_ref, docstore |-> ds_ref, child_splitter |-> splitter]

Last(op, outcome, read, ids, saved) ==
    [op |-> op, outcome |-> outcome, read |-> read, ids |-> ids, saved |-> saved]

\* A slot for a new object: the lowest one the retriever does not reference
\* (the handler field being assigned gives up the object it held).
FreshRef(live) == CHOOSE r \in Refs : r \notin live /\ \A x \in Refs \ live : r <= x

\* Objects no field references any more are dropped.
Collect(heap, live, empty) == [r \in Refs |-> IF r \in live THEN heap[r] ELSE empty]

\* The user sessions that share the configured persistence paths.
Sessions == {1, 2}

\* A session whose handler is not constructed yet.
NoSession == [started |-> FALSE, retriever |-> NoRetriever,
              vectorstore |-> EmptyVectorStore, docstore |-> EmptyDocStore,
              saving |-> FALSE]

NoSplit == [text |-> <<>>, splitter |-> [chunk_size |-> 0, chunk_overlap |-> 0],
            id |-> None, sub_docs |-> <<>>, done |-> FALSE]

\* No process_documents call made yet.
NoProcess == [uploaded_files |-> <<>>, result |-> <<>>, ui |-> <<>>,
              raised |-> FALSE, done |-> FALSE]

\* No route_query call made yet.
NoRoute == [query |-> <<>>, outcome |-> "none", answer |-> <<>>, decision |-> "none",
            done |-> FALSE]

\* No select_summarization_strategy call made yet.
NoStrategy == [total_tokens |-> 0, summary_length |-> "default", chain_type |-> "none",
               chain_kwargs |-> {}, done |-> FALSE]

\* st.session_state.vector_store_handler = None
NoVectorStore == [built |-> FALSE, chunks |-> <<>>]

\* initialize_session_state: the keys the pages work on, as first set.
InitSessionState ==
    /\ full_docs = <<>>
    /\ vector_store_handler = NoVectorStore
    /\ processed_files = <<>>
    /\ usage_stats = [documents_processed |-> 0, queries_executed |-> 0, total_words |-> 0]
    /\ performance_log = <<>>

InitApp ==
    /\ process_call = NoProcess
    /\ route_call = NoRoute
    /\ strategy_call = NoStrategy
    /\ InitSessionState
    /\ clock = 0
    /\ app_last = [op |-> "init", outcome |-> "none"]
    /\ search_kwargs = {}
    /\ agent_runs = <<>>

Init ==
    /\ embedding_function \in [FragTexts -> 0..MaxVec]
    /\ constructed = FALSE
    /\ vectorstore = None
    /\ docstore = None
    /\ retriever = NoRetriever
    /\ vs_heap = [r \in Refs |-> EmptyVectorStore]
    /\ ds_heap = [r \in Refs |-> EmptyDocStore]
    /\ disk_vs = Absent
    /\ disk_ds = Absent
    /\ uuid_ctr = 0
    /\ ui = <<>>
    /\ last = Last("none", "none", {}, <<>>, FALSE)
    /\ made_ready = FALSE
    /\ sessions = [s \in Sessions |-> NoSession]
    /\ split_call = NoSplit
    /\ InitApp

\* VectorStoreHandler(): a session starts, the fields are cleared and the
\* persisted state is loaded.
NewHandler ==
    LET r == load_retriever_from_disk(disk_vs, disk_ds)
    IN /\ constructed' = TRUE
       /\ vectorstore' = IF r.has_vs THEN 1 ELSE None
       /\ docstore' = IF r.has_ds THEN 1 ELSE None
       /\ retriever' = IF r.outcome = "loaded"
                       THEN ParentDocumentRetriever(1, 1, DefaultSplitter)
                       ELSE NoRetriever
       /\ vs_heap' = [x \in Refs |-> IF x = 1 /\ r.has_vs THEN r.vs ELSE EmptyVectorStore]
       /\ ds_heap' = [x \in Refs |-> IF x = 1 /\ r.has_ds THEN r.ds ELSE EmptyDocStore]
       /\ ui' = r.ui
       /\ last' = Last("load", r.outcome, r.read, <<>>, FALSE)
       /\ made_ready' = (r.outcome = "loaded")
       /\ UNCHANGED <<appVars, sessions, split_call, embedding_function, disk_vs, disk_ds, uuid_ctr>>

\* Faulty build_index([]): the emptiness test comes after the creation of
\* the retriever.
BuildIndexNoDocsCreating ==
    /\ constructed
    /\ retriever' = IF retriever = NoRetriever
                    THEN ParentDocumentRetriever(1, 1, ConfiguredSplitter)
                    ELSE retriever
    /\ vectorstore' = IF retriever = NoRetriever THEN 1 ELSE vectorstore
    /\ docstore' = IF retriever = NoRetriever THEN 1 ELSE docstore
    /\ vs_heap' = IF retriever = NoRetriever
                  THEN [r \in Refs |-> EmptyVectorStore] ELSE vs_heap
    /\ ds_heap' = IF retriever = NoRetriever
                  THEN [r \in Refs |-> EmptyDocStore] ELSE ds_heap
    /\ ui' = <<"warning">>
    /\ last' = Last("build_index", "no_docs", {}, <<>>, FALSE)
    /\ UNCHANGED <<appVars, sessions, split_call, embedding_function, constructed, disk_vs,
                   disk_ds, uuid_ctr, made_ready>>

\* build_index([]): the early return.
BuildIndexNoDocs ==
    /\ constructed
    /\ ui' = <<"warning">>
    /\ last' = Last("build_index", "no_docs", {}, <<>>, FALSE)
    /\ UNCHANGED <<appVars, sessions, split_call, embedding_function, constructed, vectorstore, docstore, retriever,
                   vs_heap, ds_heap, disk_vs, disk_ds, uuid_ctr, made_ready>>

\* build_index(docs), for any non-empty docs, on a handler without
\* retriever, when creating the retriever structure raises: before the FAISS store is assigned
\* ("vectorstore") or after it ("retriever").
BuildIndexCreateFailed(cfault) ==
    /\ constructed
    /\ DocBatches \ {<<>>} # {}
    /\ retriever = NoRetriever
    /\ LET ds_ref == FreshRef({retriever.docstore})
           vs_ref == IF cfault = "retriever" THEN FreshRef({retriever.vectorstore}) ELSE vectorstore
       IN /\ docstore' = ds_ref
          /\ vectorstore' = vs_ref
          /\ ds_heap' = Collect([ds_heap EXCEPT ![ds_ref] = EmptyDocStore], {ds_ref}, EmptyDocStore)
          /\ vs_heap' = IF cfault = "retriever"
                        THEN Collect([vs_heap EXCEPT ![vs_ref] = EmptyVectorStore],
                                     {vs_ref}, EmptyVectorStore)
                        ELSE vs_heap
    /\ ui' = <<"info", "error">>
    /\ last' = Last("build_index", "create_failed", {}, <<>>, FALSE)
    /\ UNCHANGED <<appVars, sessions, split_call, embedding_function, constructed, retriever, disk_vs, disk_ds,
                   uuid_ctr, made_ready>>

\* The references build_index works on once a retriever exists: those of the
\* retriever at hand, or of the one lines 176-195 create.
BuiltRetriever ==
    IF retriever = NoRetriever
    THEN ParentDocumentRetriever(FreshRef({retriever.vectorstore}), FreshRef({retriever.docstore}),
                                 ConfiguredSplitter)
    ELSE retriever

\* The heaps after lines 176-195: a created retriever starts on empty stores.
CreatedVsHeap(rt) ==
    IF retriever = NoRetriever
    THEN [vs_heap EXCEPT ![rt.vectorstore] = EmptyVectorStore]
    ELSE vs_heap

CreatedDsHeap(rt) ==
    IF retriever = NoRetriever
    THEN [ds_heap EXCEPT ![rt.docstore] = EmptyDocStore]
    ELSE ds_heap

\* Faulty creation: the new FAISS store is handed to the retriever but not
\* assigned to self.vectorstore.
CreatedVsFieldUnassigned(rt) == vectorstore

\* The handler's own references after lines 176-195.
CreatedVsField(rt) == IF retriever = NoRetriever THEN rt.vectorstore ELSE vectorstore

CreatedDsField(rt) == IF retriever = NoRetriever THEN rt.docstore ELSE docstore

\* Faulty build_index: the state is saved before add_documents is called,
\* so a failed ingest has already written both artifacts.
BuildIndexAddFailedAfterSave ==
    /\ constructed
    /\ DocBatches \ {<<>>} # {}
    /\ LET rt == BuiltRetriever
       IN /\ retriever' = rt
          /\ vectorstore' = CreatedVsField(rt)
          /\ docstore' = CreatedDsField(rt)
          /\ vs_heap' = Collect(CreatedVsHeap(rt), {CreatedVsField(rt), rt.vectorstore},
                                EmptyVectorStore)
          /\ ds_heap' = Collect(CreatedDsHeap(rt), {CreatedDsField(rt), rt.docstore},
                                EmptyDocStore)
          /\ disk_vs' = save_local(CreatedVsHeap(rt)[CreatedVsField(rt)])
          /\ disk_ds' = pickle_dump(CreatedDsHeap(rt)[CreatedDsField(rt)])
    /\ ui' = <<"info", "error">>
    /\ last' = Last("build_index", "index_failed", {}, <<>>, FALSE)
    /\ UNCHANGED <<appVars, sessions, split_call, embedding_function, constructed, uuid_ctr, made_ready>>

\* build_index(docs), for any non-empty docs, when add_documents raises (the Embedding
\* Provider or the index rejects the batch): lines 212-215.
BuildIndexAddFailed ==
    /\ constructed
    /\ DocBatches \ {<<>>} # {}
    /\ LET rt == BuiltRetriever
       IN /\ retriever' = rt
          /\ vectorstore' = CreatedVsField(rt)
          /\ docstore' = CreatedDsField(rt)
          /\ vs_heap' = Collect(CreatedVsHeap(rt), {CreatedVsField(rt), rt.vectorstore},
                                EmptyVectorStore)
          /\ ds_heap' = Collect(CreatedDsHeap(rt), {CreatedDsField(rt), rt.docstore},
                                EmptyDocStore)
    /\ ui' = <<"info", "error">>
    /\ last' = Last("build_index", "index_failed", {}, <<>>, FALSE)
    /\ UNCHANGED <<appVars, sessions, split_call, embedding_function, constructed, disk_vs, disk_ds, uuid_ctr, made_ready>>

\* build_index(docs) when add_documents succeeds: the fragments and the
\* documents are added, then the state is saved (the save may fail, which
\* it reports itself and swallows), then success is announced.
BuildIndexAdded(docs, sfault) ==
    /\ constructed
    /\ docs # <<>>
    /\ uuid_ctr + Len(docs) <= MaxUuid
    /\ LET rt == BuiltRetriever
           sub_docs == SubDocs(rt.child_splitter, docs, uuid_ctr, 1)
           new_vs == vectorstore_add(CreatedVsHeap(rt)[rt.vectorstore], sub_docs,
                                     embedding_function)
           new_ds == docstore_mset(CreatedDsHeap(rt)[rt.docstore], docs, uuid_ctr)
           vs_field == CreatedVsField(rt)
           ds_field == CreatedDsField(rt)
           vs_heap2 == Collect([CreatedVsHeap(rt) EXCEPT ![rt.vectorstore] = new_vs],
                               {vs_field, rt.vectorstore}, EmptyVectorStore)
           ds_heap2 == Collect([CreatedDsHeap(rt) EXCEPT ![rt.docstore] = new_ds],
                               {ds_field, rt.docstore}, EmptyDocStore)
           saved == save_retriever_to_disk(vs_heap2[vs_field], ds_heap2[ds_field],
                                           disk_vs, disk_ds, sfault)
       IN /\ retriever' = rt
          /\ vectorstore' = vs_field
          /\ docstore' = ds_field
          /\ vs_heap' = vs_heap2
          /\ ds_heap' = ds_heap2
          /\ disk_vs' = saved.disk_vs
          /\ disk_ds' = saved.disk_ds
          /\ ui' = <<"info">> \o saved.ui \o <<"success">>
    /\ uuid_ctr' = uuid_ctr + Len(docs)
    /\ last' = Last("build_index", "indexed", {}, <<>>, sfault = "none")
    /\ made_ready' = TRUE
    /\ UNCHANGED <<appVars, sessions, split_call, embedding_function, constructed>>

\* Faulty get_retriever: hands out self.retriever without the None check.
GetRetrieverUnchecked ==
    /\ constructed
    /\ ui' = <<>>
    /\ last' = Last("get_retriever", "retriever", {}, <<>>, FALSE)
    /\ UNCHANGED <<appVars, sessions, split_call, embedding_function, constructed, vectorstore, docstore, retriever,
                   vs_heap, ds_heap, disk_vs, disk_ds, uuid_ctr, made_ready>>

\* get_retriever(): None with an error message, or the retriever.
GetRetriever ==
    /\ constructed
    /\ ui' = IF retriever = NoRetriever THEN <<"error">> ELSE <<>>
    /\ last' = Last("get_retriever",
                    IF retriever = NoRetriever THEN "none_returned" ELSE "retriever",
                    {}, <<>>, FALSE)
    /\ UNCHANGED <<appVars, sessions, split_call, embedding_function, constructed, vectorstore, docstore, retriever,
                   vs_heap, ds_heap, disk_vs, disk_ds, uuid_ctr, made_ready>>

\* Faulty retrieval: the Documents returned are taken out of the store.
RetrievePopping(q, k) ==
    /\ constructed
    /\ retriever # NoRetriever
    /\ ui' = <<>>
    /\ LET ids == get_relevant_ids(vs_heap[retriever.vectorstore],
                                  ds_heap[retriever.docstore], q, k)
           ds == ds_heap[retriever.docstore]
       IN /\ last' = Last("retrieve", "documents", {}, ids, FALSE)
          /\ ds_heap' = [ds_heap EXCEPT ![retriever.docstore] =
                            [id \in DOMAIN ds \ Range(ids) |-> ds[id]]]
    /\ UNCHANGED <<appVars, sessions, split_call, embedding_function, constructed, vectorstore, docstore, retriever,
                   vs_heap, disk_vs, disk_ds, uuid_ctr, made_ready>>

\* retriever.get_relevant_documents(query) by a consumer that obtained the
\* retriever: q is the query's embedding, k the search depth in force.
Retrieve(q, k) ==
    /\ constructed
    /\ retriever # NoRetriever
    /\ ui' = <<>>
    /\ last' = Last("retrieve", "documents", {},
                    get_relevant_ids(vs_heap[retriever.vectorstore],
                                     ds_heap[retriever.docstore], q, k), FALSE)
    /\ UNCHANGED <<appVars, sessions, split_call, embedding_function, constructed, vectorstore, docstore, retriever,
                   vs_heap, ds_heap, disk_vs, disk_ds, uuid_ctr, made_ready>>

BuildIndex ==
    \/ BuildIndexNoDocs
    \/ \E cfault \in {"vectorstore", "retriever"} : BuildIndexCreateFailed(cfault)
    \/ BuildIndexAddFailed
    \/ \E docs \in DocBatches, sfault \in SaveFaults : BuildIndexAdded(docs, sfault)

Next ==
    \/ NewHandler
    \/ BuildIndex
    \/ GetRetriever
    \/ \E q \in 0..MaxVec, k \in 1..MaxK : Retrieve(q, k)

Spec == Init /\ [][Next]_vars

\* ------------------------------------------------------ a single split
\* The characters of a text: the separator and two others.
TextChars == {Space, 1, 2}

Texts == SeqsUpTo(TextChars, MaxText)

\* The splitter settings a text is split with: overlap below chunk_size.
SplitterConfigs ==
    {c \in [chunk_size : 1..MaxChunk, chunk_overlap : 0..(MaxChunk - 1)] :
        c.chunk_overlap < c.chunk_size}

\* add_documents on one document, as far as its fragments: the child
\* splitter splits the content and every fragment gets the id under which
\* the parent is stored.
SplitDocument(text, splitter) ==
    /\ ~split_call.done
    /\ split_call' = [text |-> text,
                      splitter |-> splitter,
                      id |-> uuid_ctr + 1,
                      sub_docs |-> SubDocs(splitter,
                                           <<[page_content |-> text, source |-> "a.txt"]>>,
                                           uuid_ctr, 1),
                      done |-> TRUE]
    /\ UNCHANGED <<appVars, sessions, embedding_function, constructed, vectorstore, docstore,
                   retriever, vs_heap, ds_heap, disk_vs, disk_ds, uuid_ctr, ui, last,
                   made_ready>>

NextSplit == \E text \in Texts, splitter \in SplitterConfigs : SplitDocument(text, splitter)

SpecSplit == Init /\ [][NextSplit]_vars

\* ------------------------------------------------- concurrent sessions
\* Every user session runs in a thread of its own and constructs its own
\* VectorStoreHandler over the same two paths.  A session's store objects
\* are held by value; its retriever refers to them as object 1.  Another
\* session can run between the two writes of a save, so build_index is two
\* steps here: up to and including vectorstore.save_local, and from
\* pickle.dump on.
SessionRetriever(s) ==
    IF sessions[s].retriever = NoRetriever
    THEN ParentDocumentRetriever(1, 1, ConfiguredSplitter)
    ELSE sessions[s].retriever

\* initialize_session_state, once per session: VectorStoreHandler().
SessionStart(s) ==
    /\ ~sessions[s].started
    /\ LET r == load_retriever_from_disk(disk_vs, disk_ds)
       IN /\ sessions' = [sessions EXCEPT ![s] =
                [started |-> TRUE,
                 retriever |-> IF r.outcome = "loaded"
                               THEN ParentDocumentRetriever(1, 1, DefaultSplitter)
                               ELSE NoRetriever,
                 vectorstore |-> r.vs,
                 docstore |-> r.ds,
                 saving |-> FALSE]]
          /\ ui' = r.ui
          /\ last' = Last("load", r.outcome, r.read, <<>>, FALSE)
    /\ UNCHANGED <<appVars, split_call, embedding_function, constructed, vectorstore, docstore,
                   retriever, vs_heap, ds_heap, disk_vs, disk_ds, uuid_ctr, made_ready>>

\* build_index(docs) of session s through add_documents and the write of
\* the FAISS artifact.
SessionBuildIndex(s, docs) ==
    /\ sessions[s].started
    /\ ~sessions[s].saving
    /\ docs # <<>>
    /\ uuid_ctr + Len(docs) <= MaxUuid
    /\ LET rt == SessionRetriever(s)
           old_vs == IF sessions[s].retriever = NoRetriever THEN EmptyVectorStore
                     ELSE sessions[s].vectorstore
           old_ds == IF sessions[s].retriever = NoRetriever THEN EmptyDocStore
                     ELSE sessions[s].docstore
           new_vs == vectorstore_add(old_vs, SubDocs(rt.child_splitter, docs, uuid_ctr, 1),
                                     embedding_function)
           new_ds == docstore_mset(old_ds, docs, uuid_ctr)
       IN /\ sessions' = [sessions EXCEPT ![s] =
                [started |-> TRUE, retriever |-> rt, vectorstore |-> new_vs,
                 docstore |-> new_ds, saving |-> TRUE]]
          /\ disk_vs' = save_local(new_vs)
    /\ uuid_ctr' = uuid_ctr + Len(docs)
    /\ ui' = <<"info">>
    /\ last' = Last("build_index", "saving", {}, <<>>, FALSE)
    /\ UNCHANGED <<appVars, split_call, embedding_function, constructed, vectorstore, docstore,
                   retriever, vs_heap, ds_heap, disk_ds, made_ready>>

\* The rest of that build_index: the document store is dumped and success
\* is announced.
SessionDumpDocstore(s) ==
    /\ sessions[s].saving
    /\ sessions' = [sessions EXCEPT ![s].saving = FALSE]
    /\ disk_ds' = pickle_dump(sessions[s].docstore)
    /\ ui' = <<"info", "success">>
    /\ last' = Last("build_index", "indexed", {}, <<>>, TRUE)
    /\ UNCHANGED <<appVars, split_call, embedding_function, constructed, vectorstore, docstore,
                   retriever, vs_heap, ds_heap, disk_vs, uuid_ctr, made_ready>>

NextShared ==
    \/ \E s \in Sessions : SessionStart(s)
    \/ \E s \in Sessions, docs \in DocBatches : SessionBuildIndex(s, docs)
    \/ \E s \in Sessions : SessionDumpDocstore(s)

SpecShared == Init /\ [][NextShared]_vars

\* --------------------------------------------------- document processor
\* The files a user uploads.  Each carries what its loader will do with it:
\* load it into `parts` documents whose metadata has a `source` entry
\* (the temporary path) or lacks one, fail to load it, or, before any
\* loader runs, fail to write its temporary copy.
Uploads ==
    {[name |-> "a.txt", load |-> "ok", parts |-> 1, keyed |-> TRUE],
     [name |-> "b.pdf", load |-> "ok", parts |-> 2, keyed |-> TRUE],
     [name |-> "c.md", load |-> "ok", parts |-> 1, keyed |-> FALSE],
     [name |-> "b.pdf", load |-> "error", parts |-> 0, keyed |-> FALSE],
     [name |-> "a.txt", load |-> "write_error", parts |-> 0, keyed |-> FALSE]}

UploadBatches == SeqsUpTo(Uploads, MaxFiles)

\* os.path.join(temp_dir, file.name)
temp_file_path(name) ==
    CASE name = "a.txt" -> "temp_uploaded_files/a.txt"
      [] name = "b.pdf" -> "temp_uploaded_files/b.pdf"
      [] OTHER -> "temp_uploaded_files/c.md"

\* loader.load() on the i-th upload: one Document per part; the content
\* of part p of upload i stands as <<i, p>>.
loader_load(file, i) ==
    [p \in 1..file.parts |->
        [page_content |-> <<i, p>>,
         metadata |-> IF file.keyed THEN {<<"source", temp_file_path(file.name)>>} ELSE {}]]

\* 'source' in doc.metadata
has_key(metadata, key) == \E e \in metadata : e[1] = key

\* Faulty metadata enrichment: the document is passed on as loaded.
enrich_metadata_skipped(doc, name) == doc

\* if 'source' not in doc.metadata: doc.metadata['source'] = file.name
enrich_metadata(doc, name) ==
    IF has_key(doc.metadata, "source")
    THEN doc
    ELSE [doc EXCEPT !.metadata = @ \cup {<<"source", name>>}]

\* The loop over the uploads from the i-th on.  The write of the temporary
\* copy is outside the try block: its failure leaves the function.
RECURSIVE process_files(_, _, _, _)
process_files(uploaded_files, i, all_loaded_docs, shown) ==
    IF i > Len(uploaded_files)
    THEN [docs |-> all_loaded_docs, ui |-> shown, raised |-> FALSE]
    ELSE LET file == uploaded_files[i]
             docs_from_file == loader_load(file, i)
         IN CASE file.load = "write_error" ->
                   [docs |-> all_loaded_docs, ui |-> shown, raised |-> TRUE]
              [] file.load = "error" ->
                   process_files(uploaded_files, i + 1, all_loaded_docs, Append(shown, "error"))
              [] OTHER ->
                   process_files(uploaded_files, i + 1,
                                 all_loaded_docs \o
                                   [p \in 1..Len(docs_from_file) |->
                                       enrich_metadata(docs_from_file[p], file.name)],
                                 shown)

process_documents(uploaded_files) ==
    IF uploaded_files = <<>>
    THEN [result |-> <<>>, ui |-> <<"warning">>, raised |-> FALSE]
    ELSE LET r == process_files(uploaded_files, 1, <<>>, <<>>)
         IN CASE r.raised -> [result |-> <<>>, ui |-> r.ui, raised |-> TRUE]
              [] r.docs = <<>> ->
                   [result |-> <<>>, ui |-> Append(r.ui, "error"), raised |-> FALSE]
              [] OTHER ->
                   [result |-> r.docs, ui |-> Append(r.ui, "success"), raised |-> FALSE]

\* One call of process_documents on one batch of uploads.
ProcessDocuments(uploaded_files) ==
    /\ ~process_call.done
    /\ LET r == process_documents(uploaded_files)
       IN process_call' = [uploaded_files |-> uploaded_files, result |-> r.result,
                           ui |-> r.ui, raised |-> r.raised, done |-> TRUE]
    /\ UNCHANGED <<handlerVars, route_call, strategy_call, sessionVars, agentVars>>

NextProcess == \E uploaded_files \in UploadBatches : ProcessDocuments(uploaded_files)

\* One session and one embedding model.
InitOne == Init /\ embedding_function = [t \in FragTexts |-> 0]

SpecProcess == InitOne /\ [][NextProcess]_vars

\* ------------------------------------------------ session state (main.py)
\* The files of one Process & Index click, as file_parser.parse returns
\* them: the name and the extracted text (a sequence of words; the empty
\* text is what a file that cannot be parsed gives).
AppFiles ==
    {[name |-> "a.txt", text |-> <<1>>],
     [name |-> "a.txt", text |-> <<2, 2>>],
     [name |-> "b.txt", text |-> <<1, 2>>],
     [name |-> "b.txt", text |-> <<>>]}

AppUploads == SeqsUpTo(AppFiles, MaxUpload) \ {<<>>}

\* What can go wrong in _process_and_vectorize: no Google API key
\* (st.stop()), or the embedding / FAISS construction raises.
VectorizeFaults == {"none", "no_api_key", "error"}

\* {d.metadata["source"]: d for d in all_docs}: a key keeps the place of
\* its first insertion and the value of its last.
RECURSIVE dict_of(_, _)
dict_of(all_docs, d) ==
    IF all_docs = <<>>
    THEN d
    ELSE LET doc == Head(all_docs)
         IN dict_of(Tail(all_docs),
                    IF \E i \in 1..Len(d) : d[i].source = doc.source
                    THEN [i \in 1..Len(d) |-> IF d[i].source = doc.source THEN doc ELSE d[i]]
                    ELSE Append(d, doc))

\* list(full_docs.keys())
dict_keys(d) == [i \in 1..Len(d) |-> d[i].source]

\* full_docs.get(key): whether a document is found
dict_has(d, key) == \E i \in 1..Len(d) : d[i].source = key

RECURSIVE total_words_of(_)
total_words_of(files_with_content) ==
    IF files_with_content = <<>>
    THEN 0
    ELSE Len(Head(files_with_content).text) + total_words_of(Tail(files_with_content))

has_text(f) == f.text # <<>>

\* Faulty upload: documents_processed counts the uploaded files.
document_upload_counting_files(uploaded_files, vfault) ==
    LET files_with_content == SelectSeq(uploaded_files, has_text)
        all_docs == [i \in 1..Len(files_with_content) |->
                        [page_content |-> files_with_content[i].text,
                         source |-> files_with_content[i].name]]
    IN CASE files_with_content = <<>> -> [outcome |-> "no_text"]
         [] vfault = "no_api_key" -> [outcome |-> "stopped"]
         [] vfault = "error" -> [outcome |-> "failed"]
         [] OTHER ->
              [outcome |-> "done",
               full_docs |-> dict_of(all_docs, <<>>),
               vector_store |-> [built |-> TRUE, chunks |-> all_docs],
               processed_files |-> dict_keys(dict_of(all_docs, <<>>)),
               documents_processed |-> Len(files_with_content),
               total_words |-> total_words_of(files_with_content)]

\* _handle_document_upload with _process_and_vectorize, up to the
\* assignments to the session state.
document_upload(uploaded_files, vfault) ==
    LET files_with_content == SelectSeq(uploaded_files, has_text)
        all_docs == [i \in 1..Len(files_with_content) |->
                        [page_content |-> files_with_content[i].text,
                         source |-> files_with_content[i].name]]
    IN CASE files_with_content = <<>> -> [outcome |-> "no_text"]
         [] vfault = "no_api_key" -> [outcome |-> "stopped"]
         [] vfault = "error" -> [outcome |-> "failed"]
         [] OTHER ->
              [outcome |-> "done",
               full_docs |-> dict_of(all_docs, <<>>),
               vector_store |-> [built |-> TRUE, chunks |-> all_docs],
               processed_files |-> dict_keys(dict_of(all_docs, <<>>)),
               documents_processed |-> Len(dict_keys(dict_of(all_docs, <<>>))),
               total_words |-> total_words_of(files_with_content)]

\* The Process & Index button.
HandleDocumentUpload(uploaded_files, vfault) ==
    LET r == document_upload(uploaded_files, vfault)
    IN /\ IF r.outcome = "done"
          THEN /\ full_docs' = r.full_docs
               /\ vector_store_handler' = r.vector_store
               /\ processed_files' = r.processed_files
               /\ usage_stats' = [usage_stats EXCEPT
                                     !.documents_processed = r.documents_processed,
                                     !.total_words = r.total_words]
          ELSE UNCHANGED <<full_docs, vector_store_handler, processed_files, usage_stats>>
       /\ app_last' = [op |-> "upload", outcome |-> r.outcome]
       /\ UNCHANGED <<handlerVars, process_call, route_call, strategy_call, agentVars,
                      performance_log, clock>>

\* The Clear & Reset Entire Session button:
\* initialize_session_state(force_reset=True).
ResetSession ==
    /\ full_docs' = <<>>
    /\ vector_store_handler' = NoVectorStore
    /\ processed_files' = <<>>
    /\ usage_stats' = [documents_processed |-> 0, queries_executed |-> 0, total_words |-> 0]
    /\ performance_log' = <<>>
    /\ app_last' = [op |-> "reset", outcome |-> "done"]
    /\ UNCHANGED <<handlerVars, process_call, route_call, strategy_call, agentVars, clock>>

\* ---------------------------------------------------------- analyzer page
PERFORMANCE_LOG_LIMIT == 50

Operations ==
    <<"Q&A", "Summarization", "Entity Extraction", "Comparison", "Report Generation", "Debug">>

\* Faulty track_performance: a full log drops its newest entry.
track_performance_pop_first(log, operation, now) ==
    LET inserted == <<[operation |-> operation, timestamp |-> now]>> \o log
    IN IF Len(inserted) > PERFORMANCE_LOG_LIMIT THEN Tail(inserted) ELSE inserted

\* track_performance: insert(0, entry), then pop() once the log is longer
\* than the limit.  `now` is the reading of datetime.now(); the measured
\* duration is left out.
track_performance(log, operation, now) ==
    LET inserted == <<[operation |-> operation, timestamp |-> now]>> \o log
    IN IF Len(inserted) > PERFORMANCE_LOG_LIMIT
       THEN SubSeq(inserted, 1, Len(inserted) - 1)
       ELSE inserted

\* The session state after a handler took one of its paths: whether it
\* counted the query, and the operation it logged ("" when it logged none).
Handled(op, outcome, counted, operation) ==
    /\ usage_stats' = IF counted
                      THEN [usage_stats EXCEPT !.queries_executed = @ + 1]
                      ELSE usage_stats
    /\ IF operation # ""
       THEN /\ clock' = clock + 1
            /\ performance_log' = track_performance(performance_log, operation, clock + 1)
       ELSE UNCHANGED <<performance_log, clock>>
    /\ app_last' = [op |-> op, outcome |-> outcome]
    /\ UNCHANGED <<handlerVars, process_call, route_call, strategy_call, agentVars,
                   full_docs, vector_store_handler, processed_files>>

\* get_retriever_from_state(ss) gives a retriever
has_retriever == vector_store_handler.built

\* The runs a behaviour is followed for.
CanRun == usage_stats.queries_executed < MaxRuns /\ clock < MaxRuns

\* handle_qa_submission(prompt, ss); the retrieval may raise.
HandleQaSubmission(prompt, fault) ==
    CASE prompt = "" -> Handled("qa", "rejected", FALSE, "")
      [] ~has_retriever -> CanRun /\ Handled("qa", "no_vector_store", TRUE, "")
      [] fault = "retrieval" -> CanRun /\ Handled("qa", "raised", TRUE, "")
      [] OTHER -> CanRun /\ Handled("qa", "done", TRUE, "Q&A")

\* handle_summarization_submission(selected_file, summary_length, ss)
HandleSummarizationSubmission(selected_file) ==
    CASE selected_file = "" -> Handled("summarization", "rejected", FALSE, "")
      [] ~dict_has(full_docs, selected_file) ->
           Handled("summarization", "not_found", FALSE, "")
      [] OTHER -> CanRun /\ Handled("summarization", "done", TRUE, "Summarization")

\* handle_entity_extraction_submission(selected_file, ss)
HandleEntityExtractionSubmission(selected_file) ==
    CASE selected_file = "" -> Handled("entity", "rejected", FALSE, "")
      [] ~dict_has(full_docs, selected_file) -> Handled("entity", "not_found", FALSE, "")
      [] OTHER -> CanRun /\ Handled("entity", "done", TRUE, "Entity Extraction")

\* handle_comparison_submission(selected_files, comparison_query, ss)
HandleComparisonSubmission(selected_files) ==
    CASE Cardinality(selected_files) < 2 -> Handled("comparison", "rejected", FALSE, "")
      [] ~has_retriever -> Handled("comparison", "no_vector_store", FALSE, "")
      [] OTHER -> CanRun /\ Handled("comparison", "done", TRUE, "Comparison")

\* handle_report_submission(report_query, ss)
HandleReportSubmission(report_query) ==
    CASE report_query = "" -> Handled("report", "rejected", FALSE, "")
      [] ~has_retriever -> Handled("report", "no_vector_store", FALSE, "")
      [] OTHER -> CanRun /\ Handled("report", "done", TRUE, "Report Generation")

\* handle_debug_submission(debug_query, ss); the retrieval may raise.
HandleDebugSubmission(debug_query, fault) ==
    CASE debug_query = "" -> Handled("debug", "rejected", FALSE, "")
      [] ~has_retriever -> Handled("debug", "no_vector_store", FALSE, "")
      [] fault = "retrieval" -> CanRun /\ Handled("debug", "raised", TRUE, "")
      [] OTHER -> CanRun /\ Handled("debug", "done", TRUE, "Debug")

\* The Clear Log button of the performance monitor, shown once the log has
\* an entry.
ClearLog ==
    /\ performance_log # <<>>
    /\ performance_log' = <<>>
    /\ app_last' = [op |-> "clear_log", outcome |-> "done"]
    /\ UNCHANGED <<handlerVars, process_call, route_call, strategy_call, agentVars,
                   full_docs, vector_store_handler, processed_files, usage_stats, clock>>

Queries == {"", "q"}

RetrievalFaults == {"none", "retrieval"}

\* display_analyzer_page: the six tools are disabled until documents are
\* processed; the chat input submits non-empty prompts only, the select
\* boxes offer the processed files.
AnalyzerPage ==
    /\ processed_files # <<>>
    /\ \/ \E fault \in RetrievalFaults : HandleQaSubmission("q", fault)
       \/ \E selected_file \in Range(processed_files) :
             HandleSummarizationSubmission(selected_file)
       \/ \E selected_file \in Range(processed_files) :
             HandleEntityExtractionSubmission(selected_file)
       \/ \E selected_files \in SUBSET Range(processed_files) :
             HandleComparisonSubmission(selected_files)
       \/ \E report_query \in Queries : HandleReportSubmission(report_query)
       \/ \E debug_query \in Queries, fault \in RetrievalFaults :
             HandleDebugSubmission(debug_query, fault)

NextApp ==
    \/ \E uploaded_files \in AppUploads, vfault \in VectorizeFaults :
          HandleDocumentUpload(uploaded_files, vfault)
    \/ ResetSession
    \/ AnalyzerPage
    \/ ClearLog

SpecApp == InitOne /\ [][NextApp]_vars

\* track_performance called on its own, the six operations taking turns.
TrackPerformance(operation) ==
    /\ clock < MaxCalls
    /\ clock' = clock + 1
    /\ performance_log' = track_performance(performance_log, operation, clock + 1)
    /\ app_last' = [op |-> "track_performance", outcome |-> "done"]
    /\ UNCHANGED <<handlerVars, process_call, route_call, strategy_call, agentVars,
                   full_docs, vector_store_handler, processed_files, usage_stats>>

NextPerf ==
    \/ TrackPerformance(Operations[(clock % Len(Operations)) + 1])
    \/ ClearLog

SpecPerf == InitOne /\ [][NextPerf]_vars

\* ---------------------------------------------------------- router agent
\* Strings are sequences of one-character strings.
UPPERCASE == <<"A", "B", "C", "D", "E", "F", "G", "H", "I", "J", "K", "L", "M", "N", "O", "P", "Q", "R", "S", "T", "U", "V", "W", "X", "Y", "Z">>

LOWERCASE == <<"a", "b", "c", "d", "e", "f", "g", "h", "i", "j", "k", "l", "m", "n", "o", "p", "q", "r", "s", "t", "u", "v", "w", "x", "y", "z">>

Whitespace == {" ", "\n"}

\* The position of a character in an alphabet, 0 if it is not in it.
alpha_index(alphabet, c) ==
    IF \E i \in 1..Len(alphabet) : alphabet[i] = c
    THEN CHOOSE i \in 1..Len(alphabet) : alphabet[i] = c
    ELSE 0

\* str.lower()
lower(s) ==
    [i \in 1..Len(s) |->
        IF alpha_index(UPPERCASE, s[i]) = 0 THEN s[i]
        ELSE LOWERCASE[alpha_index(UPPERCASE, s[i])]]

\* str.upper()
upper(s) ==
    [i \in 1..Len(s) |->
        IF alpha_index(LOWERCASE, s[i]) = 0 THEN s[i]
        ELSE UPPERCASE[alpha_index(LOWERCASE, s[i])]]

\* str.strip()
RECURSIVE str_strip(_)
str_strip(s) ==
    IF s = <<>> THEN s
    ELSE IF Head(s) \in Whitespace THEN str_strip(Tail(s))
    ELSE IF s[Len(s)] \in Whitespace THEN str_strip(SubSeq(s, 1, Len(s) - 1))
    ELSE s

\* keyword in lower_query
str_in(keyword, s) ==
    \E a \in 1..(Len(s) - Len(keyword) + 1) : SubSeq(s, a, a + Len(keyword) - 1) = keyword

comparison_keywords ==
    {<<"c", "o", "m", "p", "a", "r", "e">>,
     <<"c", "o", "n", "t", "r", "a", "s", "t">>,
     <<"v", "s">>,
     <<"v", "e", "r", "s", "u", "s">>,
     <<"d", "i", "f", "f", "e", "r", "e", "n", "c", "e">>,
     <<"s", "i", "m", "i", "l", "a", "r", "i", "t", "i", "e", "s">>}

report_keywords ==
    {<<"s", "u", "m", "m", "a", "r", "i", "z", "e">>,
     <<"s", "u", "m", "m", "a", "r", "y">>,
     <<"r", "e", "p", "o", "r", "t">>,
     <<"o", "v", "e", "r", "v", "i", "e", "w">>,
     <<"o", "u", "t", "l", "i", "n", "e">>,
     <<"d", "e", "t", "a", "i", "l">>}

\* Faulty fallback_router: the report keywords are looked for first.
fallback_router_report_first(query) ==
    LET lower_query == lower(query)
    IN IF \E keyword \in report_keywords : str_in(keyword, lower_query)
       THEN "REPORT_AGENT"
       ELSE IF \E keyword \in comparison_keywords : str_in(keyword, lower_query)
       THEN "COMPARISON_AGENT"
       ELSE "QNA_AGENT"

fallback_router(query) ==
    LET lower_query == lower(query)
    IN IF \E keyword \in comparison_keywords : str_in(keyword, lower_query)
       THEN "COMPARISON_AGENT"
       ELSE IF \E keyword \in report_keywords : str_in(keyword, lower_query)
       THEN "REPORT_AGENT"
       ELSE "QNA_AGENT"

valid_agents ==
    {[name |-> "QNA_AGENT", chars |-> <<"Q", "N", "A", "_", "A", "G", "E", "N", "T">>],
     [name |-> "REPORT_AGENT", chars |-> <<"R", "E", "P", "O", "R", "T", "_", "A", "G", "E", "N", "T">>],
     [name |-> "COMPARISON_AGENT", chars |-> <<"C", "O", "M", "P", "A", "R", "I", "S", "O", "N", "_", "A", "G", "E", "N", "T">>]}

\* How the LLM part of route_query can end: no API key, the model or the
\* chain cannot be built, the invocation raises, or the model answers.
RouteOutcomes == {"no_key", "init_failed", "chain_failed", "invoke_raised", "answered"}

\* What the model may answer: a name, a name in another case and with a
\* line end, a sentence, nothing.
LlmAnswers ==
    {<<"Q", "N", "A", "_", "A", "G", "E", "N", "T">>,
     <<"r", "e", "p", "o", "r", "t", "_", "a", "g", "e", "n", "t", "\n">>,
     <<"C", "O", "M", "P", "A", "R", "I", "S", "O", "N", "_", "A", "G", "E", "N", "T">>,
     <<"T", "h", "e", " ", "Q", "N", "A", "_", "A", "G", "E", "N", "T">>,
     <<>>}

route_query(query, outcome, answer) ==
    IF outcome # "answered"
    THEN fallback_router(query)
    ELSE LET decision == upper(str_strip(answer))
         IN IF \E agent \in valid_agents : agent.chars = decision
            THEN (CHOOSE agent \in valid_agents : agent.chars = decision).name
            ELSE fallback_router(query)

\* The words queries are made of.
Words ==
    {<<"C", "o", "m", "p", "a", "r", "e">>,
     <<"c", "a", "n", "v", "a", "s">>,
     <<"R", "E", "P", "O", "R", "T">>,
     <<"d", "e", "t", "a", "i", "l", "s">>,
     <<"w", "h", "a", "t">>}

\* " ".join(words)
RECURSIVE join_words(_)
join_words(words) ==
    IF words = <<>> THEN <<>>
    ELSE IF Len(words) = 1 THEN words[1]
    ELSE words[1] \o <<" ">> \o join_words(Tail(words))

UserQueries == {join_words(words) : words \in SeqsUpTo(Words, MaxWords)}

\* One call of route_query.
RouteQuery(query, outcome, answer) ==
    /\ ~route_call.done
    /\ route_call' = [query |-> query, outcome |-> outcome, answer |-> answer,
                      decision |-> route_query(query, outcome, answer), done |-> TRUE]
    /\ UNCHANGED <<handlerVars, process_call, strategy_call, sessionVars, agentVars>>

NextRoute ==
    \E query \in UserQueries, outcome \in RouteOutcomes :
        \E answer \in (IF outcome = "answered" THEN LlmAnswers ELSE {<<>>}) :
            RouteQuery(query, outcome, answer)

SpecRoute == InitOne /\ [][NextRoute]_vars

\* ------------------------------------------------------ summarizer agent
MODEL_CONTEXT_LIMITS ==
    [model \in {"gemini-1.5-flash-latest", "default"} |->
        IF model = "default" THEN 8000 ELSE 128000]

\* settings.QNA_MODEL
QNA_MODEL == "gemini-1.5-flash"

\* dict.get(key, default)
dict_get(d, key, default) == IF key \in DOMAIN d THEN d[key] ELSE default

\* int(model_limit * 0.8)
safe_limit_of(model_limit) == (model_limit * 8) \div 10

SummaryLengths == {"brief", "default", "detailed"}

\* get_prompt_templates: the four templates, worded after the length asked for.
get_prompt_templates(summary_length) ==
    [refine_template |-> <<"refine", IF summary_length \in {"brief", "detailed"}
                                      THEN summary_length ELSE "default">>,
     stuff_template |-> <<"stuff", IF summary_length \in {"brief", "detailed"}
                                    THEN summary_length ELSE "default">>,
     map_template |-> <<"map", "any">>,
     combine_template |-> <<"combine", summary_length>>]

\* select_summarization_strategy, from the token count of the joined text on.
select_summarization_strategy(total_tokens, summary_length) ==
    LET model_limit == dict_get(MODEL_CONTEXT_LIMITS, QNA_MODEL, MODEL_CONTEXT_LIMITS["default"])
        safe_limit == safe_limit_of(model_limit)
        prompts_dict == get_prompt_templates(summary_length)
    IN IF total_tokens < safe_limit
       THEN [chain_type |-> "stuff",
             chain_kwargs |-> {<<"prompt", prompts_dict.stuff_template>>}]
       ELSE [chain_type |-> "map_reduce",
             chain_kwargs |-> {<<"map_prompt", prompts_dict.map_template>>,
                               <<"combine_prompt", prompts_dict.combine_template>>}]

\* The token counts get_token_count may give: none, and those around the
\* safe limit of either entry of MODEL_CONTEXT_LIMITS.
TokenCounts ==
    {0} \cup {safe_limit_of(MODEL_CONTEXT_LIMITS[model]) + d :
                model \in DOMAIN MODEL_CONTEXT_LIMITS, d \in (0 - MaxSpread)..MaxSpread}

\* One call of select_summarization_strategy.
SelectSummarizationStrategy(total_tokens, summary_length) ==
    /\ ~strategy_call.done
    /\ LET strategy == select_summarization_strategy(total_tokens, summary_length)
       IN strategy_call' = [total_tokens |-> total_tokens, summary_length |-> summary_length,
                            chain_type |-> strategy.chain_type,
                            chain_kwargs |-> strategy.chain_kwargs, done |-> TRUE]
    /\ UNCHANGED <<handlerVars, process_call, route_call, sessionVars, agentVars>>

NextStrategy ==
    \E total_tokens \in TokenCounts, summary_length \in SummaryLengths :
        SelectSummarizationStrategy(total_tokens, summary_length)

SpecStrategy == InitOne /\ [][NextStrategy]_vars

\* ------------------------------------------- agents on the shared retriever
\* get_retriever returns self.retriever itself, so every agent of a session
\* works on one retriever object and on its one search_kwargs dictionary,
\* which starts empty.
\* k of FAISS.similarity_search when search_kwargs names none
DEFAULT_K == 4

\* retriever.search_kwargs['k'] = 12
COMPARISON_K == 12

\* similarity_search(query, **self.search_kwargs): the k in force
search_k(kwargs) ==
    IF \E e \in kwargs : e[1] = "k"
    THEN (CHOOSE e \in kwargs : e[1] = "k")[2]
    ELSE DEFAULT_K

\* kwargs['k'] = value
dict_set_k(kwargs, value) == {e \in kwargs : e[1] # "k"} \cup {<<"k", value>>}

\* How an agent can end before it retrieves: its API key is missing or its
\* LLM or chain cannot be built.
AgentFaults == {"none", "llm"}

\* An agent's run as far as the retriever is concerned: whether it
\* retrieved and with which k.
AgentRun(agent, retrieved, kwargs) ==
    [agent |-> agent, retrieved |-> retrieved,
     k |-> IF retrieved THEN search_k(kwargs) ELSE 0]

\* execute_qa_chain(retriever, query, chat_history)
ExecuteQaChain(fault) ==
    /\ Len(agent_runs) < MaxAgentRuns
    /\ agent_runs' = Append(agent_runs, AgentRun("qa", fault = "none", search_kwargs))
    /\ UNCHANGED <<handlerVars, process_call, route_call, strategy_call, sessionVars,
                   search_kwargs>>

\* execute_report_chain(retriever, query)
ExecuteReportChain(fault) ==
    /\ Len(agent_runs) < MaxAgentRuns
    /\ agent_runs' = Append(agent_runs, AgentRun("report", fault = "none", search_kwargs))
    /\ UNCHANGED <<handlerVars, process_call, route_call, strategy_call, sessionVars,
                   search_kwargs>>

\* execute_debug_chain(retriever, query)
ExecuteDebugChain ==
    /\ Len(agent_runs) < MaxAgentRuns
    /\ agent_runs' = Append(agent_runs, AgentRun("debug", TRUE, search_kwargs))
    /\ UNCHANGED <<handlerVars, process_call, route_call, strategy_call, sessionVars,
                   search_kwargs>>

\* execute_comparison_chain(retriever, query): once its LLM is built it
\* sets k on the retriever and retrieves.
ExecuteComparisonChain(fault) ==
    /\ Len(agent_runs) < MaxAgentRuns
    /\ search_kwargs' = IF fault = "none"
                        THEN dict_set_k(search_kwargs, COMPARISON_K)
                        ELSE search_kwargs
    /\ agent_runs' = Append(agent_runs,
                            AgentRun("comparison", fault = "none",
                                     dict_set_k(search_kwargs, COMPARISON_K)))
    /\ UNCHANGED <<handlerVars, process_call, route_call, strategy_call, sessionVars>>

NextAgents ==
    \/ \E fault \in AgentFaults : ExecuteQaChain(fault)
    \/ \E fault \in AgentFaults : ExecuteReportChain(fault)
    \/ ExecuteDebugChain
    \/ \E fault \in AgentFaults : ExecuteComparisonChain(fault)

SpecAgents == InitOne /\ [][NextAgents]_vars

\* ============================================================ properties
Ready == constructed /\ retriever # NoRetriever

\* The stores the retriever searches and resolves in.
RetrieverVs == vs_heap[retriever.vectorstore]

RetrieverDs == ds_heap[retriever.docstore]

QueryVecs == 0..MaxVec

Depths == 1..MaxK

Pos(seq, x) == CHOOSE p \in 1..Len(seq) : seq[p] = x

FirstOcc(sub_docs, id) ==
    CHOOSE p \in 1..Len(sub_docs) :
        /\ sub_docs[p].doc_id = id
        /\ \A r \in 1..(p - 1) : sub_docs[r].doc_id # id

ParentsOf(sub_docs) == {sub_docs[i].doc_id : i \in 1..Len(sub_docs)}

\* The fragments and documents the handler holds; an unset store holds none.
HeldFragments == IF vectorstore = None THEN EmptyVectorStore ELSE vs_heap[vectorstore]

HeldDocuments == IF docstore = None THEN EmptyDocStore ELSE ds_heap[docstore]

\* C1: in every state reached by build_index, save and load, every fragment
\* of the Fragment Index has a parent_id that is a key of the Document Store.
C1_ParentResolution ==
    Ready => \A i \in 1..Len(RetrieverVs.chunks) :
                RetrieverVs.chunks[i].doc_id \in DOMAIN RetrieverDs

\* C2: for every query and every top_k, in every READY state, retrieve never
\* returns two Documents with the same id.
C2_NoDuplicateParents ==
    Ready => \A q \in QueryVecs, k \in Depths :
                LET ids == get_relevant_ids(RetrieverVs, RetrieverDs, q, k)
                IN \A i, j \in 1..Len(ids) : i # j => ids[i] # ids[j]

\* C2 witness: a retrieval whose similarity search found two fragments of
\* one parent and returned that parent.
C2_Witness ==
    /\ Ready
    /\ last.op = "retrieve"
    /\ Len(last.ids) >= 1
    /\ \E q \in QueryVecs, k \in Depths :
          LET sub == similarity_search(RetrieverVs, q, k)
          IN /\ last.ids = get_relevant_ids(RetrieverVs, RetrieverDs, q, k)
             /\ \E a, b \in 1..Len(sub) : a # b /\ sub[a].doc_id = sub[b].doc_id

\* C3 as stated: whenever fragment A precedes fragment B in the search
\* result and their different parents both resolve, A's parent appears no
\* later than B's parent in the output of retrieve.
C3_EveryFragmentPairOrdered ==
    Ready => \A q \in QueryVecs, k \in Depths :
                LET sub == similarity_search(RetrieverVs, q, k)
                    ids == get_relevant_ids(RetrieverVs, RetrieverDs, q, k)
                IN \A a, b \in 1..Len(sub) :
                      (/\ a < b
                       /\ sub[a].doc_id # sub[b].doc_id
                       /\ sub[a].doc_id \in DOMAIN RetrieverDs
                       /\ sub[b].doc_id \in DOMAIN RetrieverDs)
                      => Pos(ids, sub[a].doc_id) <= Pos(ids, sub[b].doc_id)

\* C3 amended: parents are ordered by their first (best-ranked) fragment: if
\* the first fragment of parent P precedes the first fragment of parent Q in
\* the search result and both resolve, P appears before Q in the output.
C3_ParentsOrderedByFirstOccurrence ==
    Ready => \A q \in QueryVecs, k \in Depths :
                LET sub == similarity_search(RetrieverVs, q, k)
                    ids == get_relevant_ids(RetrieverVs, RetrieverDs, q, k)
                IN \A P, Q \in ParentsOf(sub) \cap DOMAIN RetrieverDs :
                      FirstOcc(sub, P) < FirstOcc(sub, Q)
                      => /\ P \in Range(ids)
                         /\ Q \in Range(ids)
                         /\ Pos(ids, P) < Pos(ids, Q)

\* C3 witness: a retrieval whose search ranked a fragment of another parent
\* between two fragments of one parent, all of them resolving.
C3_Witness ==
    /\ Ready
    /\ last.op = "retrieve"
    /\ Len(last.ids) = 2
    /\ \E q \in QueryVecs, k \in Depths :
          LET sub == similarity_search(RetrieverVs, q, k)
          IN /\ last.ids = get_relevant_ids(RetrieverVs, RetrieverDs, q, k)
             /\ \E a, b, c \in 1..Len(sub) :
                   /\ a < b /\ b < c
                   /\ sub[a].doc_id = sub[c].doc_id
                   /\ sub[a].doc_id # sub[b].doc_id
                   /\ {sub[a].doc_id, sub[b].doc_id} \subseteq DOMAIN RetrieverDs

\* C4: for every query and top_k, retrieve returns at most as many Documents
\* as there are distinct parent_ids among the fragments the similarity
\* search returned, hence at most top_k.
C4_AtMostDistinctParents ==
    Ready => \A q \in QueryVecs, k \in Depths :
                LET sub == similarity_search(RetrieverVs, q, k)
                    ids == get_relevant_ids(RetrieverVs, RetrieverDs, q, k)
                IN /\ Len(ids) <= Cardinality(ParentsOf(sub))
                   /\ Cardinality(ParentsOf(sub)) <= k
                   /\ Len(sub) <= k

\* C4 witness: a retrieval over an index holding more fragments than the
\* search depth, returning fewer Documents than fragments found.
C4_Witness ==
    /\ Ready
    /\ last.op = "retrieve"
    /\ \E q \in QueryVecs, k \in Depths :
          LET sub == similarity_search(RetrieverVs, q, k)
          IN /\ last.ids = get_relevant_ids(RetrieverVs, RetrieverDs, q, k)
             /\ Len(RetrieverVs.index) > k
             /\ Len(sub) = k
             /\ Len(last.ids) < Len(sub)

\* The ids retrieve returns in the current state and in the next one.
IdsNow(q, k) == get_relevant_ids(RetrieverVs, RetrieverDs, q, k)

IdsNext(q, k) ==
    get_relevant_ids(vs_heap'[retriever'.vectorstore], ds_heap'[retriever'.docstore], q, k)

C6_NotReadyIsReported ==
    /\ []((/\ last.op = "get_retriever"
           /\ retriever = NoRetriever)
          => /\ last.outcome = "none_returned"
             /\ last.outcome # "documents"
             /\ ui = <<"error">>)
    /\ [][(/\ constructed
           /\ retriever = NoRetriever
           /\ last'.op = "get_retriever")
          => UNCHANGED <<vectorstore, docstore, retriever, vs_heap, ds_heap,
                         disk_vs, disk_ds>>]_vars
    /\ [][(/\ last.op = "get_retriever"
           /\ last.outcome = "none_returned"
           /\ last'.op = "build_index"
           /\ last'.outcome = "indexed")
          => retriever' # NoRetriever]_vars

\* C6 witness: get_retriever answered on a handler constructed with no
\* persisted artifacts and nothing ingested.
C6_Witness ==
    /\ constructed
    /\ last.op = "get_retriever"
    /\ last.outcome = "none_returned"
    /\ ~made_ready
    /\ vectorstore = None
    /\ docstore = None
    /\ disk_vs = Absent
    /\ disk_ds = Absent

\* C7: the handler is READY only if a load succeeded or an earlier
\* build_index with at least one document completed successfully; a
\* build_index whose indexing fails on an UNINITIALIZED handler leaves it
\* UNINITIALIZED.
C7_ReadyOnlyAfterSuccess == Ready => made_ready

\* C8: ingest is atomic: when add_documents fails partway the call fails
\* and the in-memory Fragment Index and Document Store are exactly as they
\* were before the call.
C8_FailedIngestChangesNothing ==
    [][(/\ last'.op = "build_index"
        /\ last'.outcome = "index_failed")
       => /\ (vectorstore' = None) = (vectorstore = None)
          /\ (docstore' = None) = (docstore = None)
          /\ HeldFragments' = HeldFragments
          /\ HeldDocuments' = HeldDocuments
          /\ "error" \in Range(ui')
          /\ "success" \notin Range(ui')]_vars

OneCorrupt ==
    /\ disk_vs.state # "absent"
    /\ disk_ds.state # "absent"
    /\ (disk_vs.state = "corrupt" \/ disk_ds.state = "corrupt")

\* C9: when both artifacts exist and one is unreadable, load reports a load
\* error - an error message, which the not-found outcome never shows - does
\* not raise, and leaves no retriever.
C9_CorruptIsReported ==
    /\ (last.op = "load" /\ OneCorrupt)
       => /\ last.outcome = "load_error"
          /\ ui = <<"error">>
          /\ retriever = NoRetriever
    /\ (last.op = "load" /\ last.outcome = "not_found") => ui = <<>>

\* C9 witness: a load that found a readable Fragment Index artifact next to
\* an unreadable Document Store artifact.
C9_Witness ==
    /\ last.op = "load"
    /\ disk_vs.state = "ok"
    /\ disk_ds.state = "corrupt"
    /\ last.outcome = "load_error"

\* C10: if either artifact is absent, load returns NotFound, shows no error,
\* reads neither artifact, and vectorstore, docstore and retriever are unset.
C10_AbsentIsNotFound ==
    (last.op = "load" /\ (disk_vs.state = "absent" \/ disk_ds.state = "absent"))
    => /\ last.outcome = "not_found"
       /\ ui = <<>>
       /\ last.read = {}
       /\ vectorstore = None
       /\ docstore = None
       /\ retriever = NoRetriever

\* C10 witness: a load that found the Fragment Index artifact but no
\* Document Store artifact.
C10_Witness ==
    /\ last.op = "load"
    /\ disk_vs.state = "ok"
    /\ disk_ds.state = "absent"

\* C11: a save that fails at any step leaves on disk exactly the pair of
\* artifacts that was there before the save began; in particular never a
\* new Fragment Index artifact next to an old or missing Document Store
\* artifact.
C11_FailedSaveKeepsArtifacts ==
    [][(/\ last'.op = "build_index"
        /\ last'.outcome = "indexed"
        /\ ~last'.saved)
       => /\ disk_vs' = disk_vs
          /\ disk_ds' = disk_ds]_vars

\* The Document Store entries that hold a document of the given name.
EntriesFor(ds, source) == {id \in DOMAIN ds : ds[id].source = source}

Sources == {d.source : d \in Document}

\* C12: re-ingest overwrites by id: after a document named "a.txt" is
\* ingested and a document of the same name is ingested again, the Document
\* Store holds exactly one entry for that name, the one ingested last.
C12_ReingestOverwritesById ==
    Ready => \A source \in Sources :
                Cardinality(EntriesFor(RetrieverDs, source)) <= 1

IsPrefix(s, t) == Len(s) <= Len(t) /\ SubSeq(t, 1, Len(s)) = s

Orphans == ParentsOf(RetrieverVs.chunks) \ DOMAIN RetrieverDs

\* C14: during retrieve a parent_id that does not resolve in the Document
\* Store is skipped: no error is raised, the Documents of all other matched
\* parents are returned in their original order, and the result holds no
\* placeholder or empty entry for the orphan.
C14_OrphanSkipped ==
    /\ (Ready /\ Orphans # {}) => \A q \in QueryVecs, k \in Depths :
                  LET sub == similarity_search(RetrieverVs, q, k)
                      ids == get_relevant_ids(RetrieverVs, RetrieverDs, q, k)
                      resolving == ParentsOf(sub) \cap DOMAIN RetrieverDs
                  IN /\ Range(ids) = resolving
                     /\ Len(ids) = Cardinality(resolving)
                     /\ \A i, j \in 1..Len(ids) :
                           i < j => FirstOcc(sub, ids[i]) < FirstOcc(sub, ids[j])
    /\ last.op = "retrieve" => (last.outcome = "documents" /\ ui = <<>>)

\* C14 witness: a retrieval whose best-ranked fragment is an orphan and
\* which returned the parent of a fragment ranked after it.
C14_Witness ==
    /\ Ready
    /\ last.op = "retrieve"
    /\ Len(last.ids) >= 1
    /\ \E q \in QueryVecs, k \in Depths :
          LET sub == similarity_search(RetrieverVs, q, k)
          IN /\ last.ids = get_relevant_ids(RetrieverVs, RetrieverDs, q, k)
             /\ Len(sub) >= 2
             /\ sub[1].doc_id \notin DOMAIN RetrieverDs
             /\ \E b \in 2..Len(sub) : sub[b].doc_id = last.ids[1]

\* C15: ingestion and persistence failures are surfaced to the caller of
\* build_index as an outcome distinguishable from success: a call in which
\* the save to disk failed, or in which document indexing failed, never
\* reports what a fully successful call reports (the success announcement).
C15_FailuresSurfaced ==
    (/\ last.op = "build_index"
     /\ \/ last.outcome = "index_failed"
        \/ last.outcome = "indexed" /\ ~last.saved)
    => /\ "error" \in Range(ui)
       /\ "success" \notin Range(ui)

\* C16: only build_index and load change the Fragment Index and the
\* Document Store: every retrieval by a consumer leaves both stores, the
\* handler's references to them and the persisted artifacts unchanged.
C16_RetrievalChangesNothing ==
    [][\/ last'.op \in {"build_index", "load"}
       \/ UNCHANGED <<vectorstore, docstore, vs_heap, ds_heap, disk_vs, disk_ds>>]_vars

\* C16 witness: a retrieval that returned Documents from stores that are
\* also persisted.
C16_Witness ==
    /\ Ready
    /\ last.op = "retrieve"
    /\ Len(last.ids) >= 1
    /\ disk_vs = save_local(RetrieverVs)
    /\ disk_ds = pickle_dump(RetrieverDs)

\* C17: when two handlers share the persistence paths and each runs
\* build_index, under every interleaving the two artifacts on disk come
\* from the same handler's save once no save is in progress, and no
\* document saved by one handler is lost from the persisted state by the
\* other's save.
C17_SharedPathsConsistent ==
    /\ []((/\ \A s \in Sessions : ~sessions[s].saving
           /\ disk_vs.state = "ok"
           /\ disk_ds.state = "ok")
          => \E s \in Sessions :
                /\ sessions[s].started
                /\ disk_vs = save_local(sessions[s].vectorstore)
                /\ disk_ds = pickle_dump(sessions[s].docstore))
    /\ [][disk_ds.state = "ok"
          => /\ disk_ds'.state = "ok"
             /\ DOMAIN disk_ds.store \subseteq DOMAIN disk_ds'.store]_vars

\* The sliding window of the specification: windows of s characters at
\* offsets 0, s-o, 2(s-o), ..., the last one truncated to what remains.
SlidingWindow(text, s, o) ==
    LET L == Len(text)
        step == s - o
        n == IF L = 0 THEN 0
             ELSE IF L <= s THEN 1
             ELSE 1 + ((L - s + step - 1) \div step)
    IN [j \in 1..n |-> SubSeq(text, (j - 1) * step + 1, Min((j - 1) * step + s, L))]

IsSubstring(f, text) ==
    \E a \in 1..(Len(text) + 1) :
        /\ a + Len(f) - 1 <= Len(text)
        /\ SubSeq(text, a, a + Len(f) - 1) = f

SplitTexts == [i \in 1..Len(split_call.sub_docs) |-> split_call.sub_docs[i].page_content]

FragmentsWellFormed ==
    \A i \in 1..Len(split_call.sub_docs) :
        /\ IsSubstring(SplitTexts[i], split_call.text)
        /\ Len(SplitTexts[i]) >= 1
        /\ Len(SplitTexts[i]) <= split_call.splitter.chunk_size
        /\ split_call.sub_docs[i].doc_id = split_call.id

\* C18 as stated: for every document, fragment_size s and overlap o < s the
\* fragments are the sliding window at offsets 0, s-o, 2(s-o), ...; every
\* fragment is a substring of its parent, at most s long, with the
\* parent's id.
C18_SlidingWindow ==
    split_call.done
    => /\ SplitTexts = SlidingWindow(split_call.text, split_call.splitter.chunk_size,
                                     split_call.splitter.chunk_overlap)
       /\ FragmentsWellFormed

\* C18 amended: every fragment is a non-empty substring of its parent, at
\* most s long, with the parent's id; for a content without whitespace the
\* fragments are exactly the sliding window.
C18_SlidingWindowWithoutWhitespace ==
    split_call.done
    => /\ FragmentsWellFormed
       /\ Space \notin Range(split_call.text)
          => SplitTexts = SlidingWindow(split_call.text, split_call.splitter.chunk_size,
                                        split_call.splitter.chunk_overlap)

\* C18 witness: a content without whitespace split into several
\* overlapping windows, the last one truncated.
C18_Witness ==
    /\ split_call.done
    /\ Space \notin Range(split_call.text)
    /\ split_call.splitter.chunk_overlap >= 1
    /\ Len(split_call.sub_docs) >= 2
    /\ Len(SplitTexts[Len(SplitTexts)]) < split_call.splitter.chunk_size

\* C19: a build_index call with an empty document list changes nothing:
\* retriever, vectorstore, docstore and the persisted artifacts are as
\* before, and an UNINITIALIZED handler stays UNINITIALIZED.
C19_EmptyIngestChangesNothing ==
    [][(/\ last'.op = "build_index"
        /\ last'.outcome = "no_docs")
       => /\ UNCHANGED <<retriever, vectorstore, docstore, vs_heap, ds_heap,
                         disk_vs, disk_ds>>
          /\ ~Ready => ~Ready'
          /\ "success" \notin Range(ui')]_vars

\* C19 witness: build_index([]) answered on a handler that has no retriever.
C19_Witness ==
    /\ constructed
    /\ last.op = "build_index"
    /\ last.outcome = "no_docs"
    /\ ui = <<"warning">>
    /\ retriever = NoRetriever

\* C20: a similarity search on a READY retriever whose Fragment Index
\* holds no fragment returns an empty list rather than an error, so
\* retrieve returns an empty list.
C20_EmptyIndexEmptyResult ==
    (Ready /\ RetrieverVs.index = <<>>)
    => /\ \A q \in QueryVecs, k \in Depths :
             /\ similarity_search(RetrieverVs, q, k) = <<>>
             /\ get_relevant_documents(RetrieverVs, RetrieverDs, q, k) = <<>>
       /\ last.op = "retrieve"
          => /\ last.outcome = "documents"
             /\ last.ids = <<>>
             /\ ui = <<>>

\* C20 witness: a retrieval answered by a retriever over an empty index.
C20_Witness ==
    /\ Ready
    /\ RetrieverVs.index = <<>>
    /\ last.op = "retrieve"
    /\ last.ids = <<>>

\* The uploads of the call whose load succeeded.
LoadedUploads ==
    {i \in 1..Len(process_call.uploaded_files) : process_call.uploaded_files[i].load = "ok"}

\* Part <<i, p>> comes before part <<j, q>> in upload order.
PartBefore(a, b) == a[1] < b[1] \/ (a[1] = b[1] /\ a[2] < b[2])

HandlerOps == {"qa", "summarization", "entity", "comparison", "report", "debug"}

\* C22: every action handler counts its query: an invocation that carries
\* out its action raises usage_stats['queries_executed'] by exactly one, an
\* invocation rejected by its validation leaves it as it was, and the
\* counter never decreases.
C22_QueryCounter ==
    [][/\ usage_stats'.queries_executed >= usage_stats.queries_executed
       /\ (app_last'.op \in HandlerOps /\ app_last'.outcome = "done")
             => usage_stats'.queries_executed = usage_stats.queries_executed + 1
       /\ (app_last'.op \in HandlerOps
           /\ app_last'.outcome \in {"rejected", "not_found", "no_vector_store"})
             => usage_stats'.queries_executed = usage_stats.queries_executed]_vars

\* C29: in the session state of the main application processed_files is
\* the list of the keys of full_docs and usage_stats['documents_processed']
\* is its length, whatever uploads and resets came before; an upload that
\* fails (no text extracted, or vectorization raised or stopped) leaves
\* full_docs, vector_store_handler, processed_files and usage_stats as
\* they were.
C29_SessionStateConsistent ==
    /\ [](/\ Len(processed_files) = Len(full_docs)
          /\ \A i \in 1..Len(full_docs) : processed_files[i] = full_docs[i].source
          /\ \A i, j \in 1..Len(full_docs) :
                full_docs[i].source = full_docs[j].source => i = j
          /\ usage_stats.documents_processed = Len(processed_files))
    /\ [][(app_last'.op = "upload" /\ app_last'.outcome \in {"no_text", "failed", "stopped"})
             => UNCHANGED <<full_docs, vector_store_handler, processed_files,
                            usage_stats>>]_vars

\* An upload failed in a session that holds two processed documents.
C29_Witness ==
    /\ app_last = [op |-> "upload", outcome |-> "failed"]
    /\ Len(processed_files) = 2
    /\ usage_stats.documents_processed = 2

\* C30: the performance log never holds more than 50 entries, its entries
\* are ordered newest first, and a call on a full log evicts exactly the
\* oldest entry: the new entry is put in front of the 49 newest.
C30_PerformanceLogBounded ==
    /\ [](/\ Len(performance_log) <= 50
          /\ \A i, j \in 1..Len(performance_log) :
                i < j => performance_log[i].timestamp > performance_log[j].timestamp)
    /\ [][(Len(performance_log) = 50 /\ clock' # clock)
             => /\ Len(performance_log') = 50
                /\ performance_log'[1].timestamp = clock'
                /\ \A i \in 1..49 : performance_log'[i + 1] = performance_log[i]]_vars

\* The log is full and its first entries have been evicted.
C30_Witness ==
    /\ Len(performance_log) = 50
    /\ performance_log[50].timestamp > 1
    /\ performance_log[1].timestamp = clock

\* A keyword of the set occurs in the query, whatever the case of the
\* query's letters.
Mentions(query, keywords) == \E keyword \in keywords : IsSubstring(keyword, lower(query))

\* The model was reached and answered one of the three names (as read
\* after stripping white space and raising the case).
AnsweredValid ==
    /\ route_call.outcome = "answered"
    /\ \E agent \in valid_agents : agent.chars = upper(str_strip(route_call.answer))

\* C23: route_query always returns QNA_AGENT, REPORT_AGENT or
\* COMPARISON_AGENT; whenever the LLM route fails (no key, initialisation,
\* chain construction, invocation) or the answer is none of the three names,
\* the result is the fallback's: COMPARISON_AGENT if a comparison keyword
\* occurs in the query, otherwise REPORT_AGENT if a report keyword occurs,
\* otherwise QNA_AGENT.
C23_RouterAlwaysDecides ==
    route_call.done =>
        /\ route_call.decision \in {"QNA_AGENT", "REPORT_AGENT", "COMPARISON_AGENT"}
        /\ ~AnsweredValid =>
              route_call.decision =
                 IF Mentions(route_call.query, comparison_keywords) THEN "COMPARISON_AGENT"
                 ELSE IF Mentions(route_call.query, report_keywords) THEN "REPORT_AGENT"
                 ELSE "QNA_AGENT"
        /\ AnsweredValid =>
              \E agent \in valid_agents :
                 /\ agent.name = route_call.decision
                 /\ agent.chars = upper(str_strip(route_call.answer))

\* The model answered with a sentence on a query that names both a
\* comparison keyword (in capitals) and a report keyword.
C23_Witness ==
    /\ route_call.done
    /\ route_call.outcome = "answered"
    /\ ~AnsweredValid
    /\ Mentions(route_call.query, comparison_keywords)
    /\ Mentions(route_call.query, report_keywords)
    /\ route_call.decision = "COMPARISON_AGENT"

\* C24: the strategy is 'stuff' exactly when the token count is below
\* int(0.8 x the context limit of the configured Gemini model), that limit
\* being the Gemini entry of MODEL_CONTEXT_LIMITS (128000, so 102400), and
\* 'map_reduce' otherwise.
C24_StrategyByModelLimit ==
    strategy_call.done =>
        /\ strategy_call.chain_type \in {"stuff", "map_reduce"}
        /\ strategy_call.chain_type = "stuff" <=> strategy_call.total_tokens < 102400

\* C25: whenever the handler has a retriever, self.vectorstore and
\* self.docstore are set and are the very store objects the retriever was
\* constructed with, so a save that passes the `if not self.retriever`
\* guard works on stores that exist.
C25_RetrieverHoldsHandlerStores ==
    retriever # NoRetriever =>
        /\ vectorstore # None
        /\ docstore # None
        /\ retriever.vectorstore = vectorstore
        /\ retriever.docstore = docstore

\* A build_index created the retriever and its save went through.
C25_Witness ==
    /\ retriever # NoRetriever
    /\ retriever.child_splitter = ConfiguredSplitter
    /\ last.op = "build_index"
    /\ last.outcome = "indexed"
    /\ last.saved
    /\ vectorstore # None
    /\ disk_vs = save_local(vs_heap[vectorstore])

\* C26: build_index saves only after add_documents has succeeded: a call
\* whose add_documents raises writes neither persisted artifact, so what is
\* on disk is what was there before the failed ingest.
C26_FailedIngestWritesNothing ==
    [][(last'.op = "build_index" /\ last'.outcome = "index_failed")
          => (disk_vs' = disk_vs /\ disk_ds' = disk_ds)]_vars

\* An ingest failed in a handler whose earlier ingest is on disk.
C26_Witness ==
    /\ last.op = "build_index"
    /\ last.outcome = "index_failed"
    /\ disk_vs # Absent
    /\ disk_ds # Absent
    /\ retriever # NoRetriever

\* C27: a retriever restored by a load fragments documents as a freshly
\* created one does: its child splitter has the configured chunk size and
\* chunk overlap, so every document yields the same fragment sequence in
\* either state.
C27_SameFragmentationAfterLoad ==
    retriever # NoRetriever =>
        /\ retriever.child_splitter.chunk_size = CHILD_CHUNK_SIZE
        /\ retriever.child_splitter.chunk_overlap = CHILD_CHUNK_OVERLAP
        /\ \A content \in Contents :
              split_text(retriever.child_splitter, content) =
                 split_text(ConfiguredSplitter, content)

\* C28: the k of one agent's retrieval does not depend on the agents that
\* ran before it on the shared retriever: a Q&A, report or debug retrieval
\* searches with the k it has when no comparison ever ran (the default of
\* the search, 4), also after execute_comparison_chain has set k to 12.
C28_KIndependentOfEarlierAgents ==
    \A i \in 1..Len(agent_runs) :
        (agent_runs[i].agent # "comparison" /\ agent_runs[i].retrieved)
           => agent_runs[i].k = 4

====
